---- MODULE Spec2Model ----
(***************************************************************************)
(* A model of the orthophoto downloader: the tile grid generator           *)
(* (ImageDownloader._make_grid), the downloader constructors, the area     *)
(* download loop (download_images_from_polygon / download_single_image),   *)
(* the multi-service coordinator (AutoOrthophotoDownloader) and the        *)
(* dictionary round trip of AreaDataset / Image.                           *)
(*                                                                         *)
(* Geometry.  Areas and masks are axis-aligned boxes (shapely `box`, the   *)
(* form both scripts of the repository build).  A box is a record          *)
(* [minx, miny, maxx, maxy] whose coordinates are integers counting        *)
(* 1/Den metre, so that bounds need not be whole metres and np.floor /     *)
(* np.ceil are not the identity.  Grid coordinates are whole metres, as    *)
(* they are in the code after np.floor and round(x, -3).                   *)
(***************************************************************************)
EXTENDS Integers, Sequences, FiniteSets, TLC

\* Coordinates of areas and masks are multiples of 1/Den metre.
Den == 2

\* How many times the boundary dataset is read in one behaviour, failed
\* reads included.
MaxLoads == 2

\* The most entries delete_images has unlinked when an unlink raises.
MaxUnlinked == 1

\* How many _make_grid calls one behaviour of the grid scenario records.
MaxGridCalls == 2

\* round(x, -3) rounds to a multiple of 10^3.
Thousand == 1000

Max(a, b) == IF a >= b THEN a ELSE b
Min(a, b) == IF a <= b THEN a ELSE b

\* A whole number of metres / a number of metres plus 1/Den, in 1/Den metre.
M(x) == x * Den
MFrac(x) == x * Den + 1

Box(minx, miny, maxx, maxy) ==
    [minx |-> minx, miny |-> miny, maxx |-> maxx, maxy |-> maxy]

----------------------------------------------------------------------------
(* ImageDownloader._make_grid                                              *)

\* np.floor / np.ceil of a coordinate given in 1/Den metre; whole metres.
Floor(c) == c \div Den
Ceil(c) == (c + Den - 1) \div Den

\* np.arange(start, stop, step): start + i*step for 0 <= i < ceil((stop-start)/step).
ARange(start, stop, step) ==
    LET n == IF stop > start THEN (stop - start + step - 1) \div step ELSE 0
    IN  [i \in 1..n |-> start + (i - 1) * step]

\* round(x, -3) of a numpy float holding a whole number: nearest multiple of
\* 1000, a tie going to the even multiple (rint).
RoundThousand(x) ==
    LET q == x \div Thousand
        r == x % Thousand
    IN  IF 2 * r < Thousand THEN q * Thousand
        ELSE IF 2 * r > Thousand THEN (q + 1) * Thousand
        ELSE IF q % 2 = 0 THEN q * Thousand ELSE (q + 1) * Thousand

\* [c[0] - s] + c + [c[-1] + s]
Pad(c, grid_spacing) ==
    <<c[1] - grid_spacing>> \o c \o <<c[Len(c)] + grid_spacing>>

\* x_coords (or y_coords) of _make_grid for one axis of the buffered bounds;
\* the caller guarantees a non-empty arange.
Coords(lo, hi, grid_spacing) ==
    LET raw == ARange(Floor(lo), Ceil(hi), grid_spacing)
        rounded == [i \in 1..Len(raw) |-> RoundThousand(raw[i])]
    IN  Pad(rounded, grid_spacing)

\* buffered_area.bounds: buffering a box moves every bound out by the buffer.
BufferedBounds(area, buffer_size) ==
    Box(area.minx - M(buffer_size), area.miny - M(buffer_size),
        area.maxx + M(buffer_size), area.maxy + M(buffer_size))

\* The square of side grid_spacing whose lower-left corner is (x, y), as a box.
Square(x, y, grid_spacing) ==
    Box(M(x), M(y), M(x + grid_spacing), M(y + grid_spacing))

\* Distance along one axis between two closed intervals (0 when they meet).
AxisGap(lo1, hi1, lo2, hi2) == Max(0, Max(lo1 - hi2, lo2 - hi1))

\* shapely intersects of two boxes, the first buffered by `buffer_size`:
\* closed sets, so boxes that only touch intersect.  A buffered box is the
\* set of points within the buffer distance of the box.
Intersects(area, buffer_size, sq) ==
    LET dx == AxisGap(area.minx, area.maxx, sq.minx, sq.maxx)
        dy == AxisGap(area.miny, area.maxy, sq.miny, sq.maxy)
        b == M(buffer_size)
    IN  /\ dx <= b
        /\ dy <= b
        /\ dx * dx + dy * dy <= b * b

\* The shapely type of a box: a box without width or height is a line or
\* a point, as the intersection of two boxes that only touch is.
GeomType(geom) ==
    IF geom.minx < geom.maxx /\ geom.miny < geom.maxy THEN "Polygon"
    ELSE IF geom.minx = geom.maxx /\ geom.miny = geom.maxy THEN "Point"
    ELSE "LineString"

\* area_polygon.buffer(buffer_size) is the empty polygon: a geometry
\* without area buffered by 0.
BufferIsEmpty(area_polygon, buffer_size) ==
    buffer_size = 0 /\ GeomType(area_polygon) # "Polygon"

\* The result of _make_grid: the squares, as <<x, y>> lower-left corners
\* in metres, in the order of the loops (x outer, y inner).  The bounds of
\* an empty buffered area are no numbers, and the unpacking or np.arange
\* raises ValueError; x_coords[0] / y_coords[0] of an empty arange raises
\* IndexError.
_make_grid(area_polygon, buffer_size, grid_spacing) ==
    LET b == BufferedBounds(area_polygon, buffer_size)
        emptyx == Ceil(b.maxx) <= Floor(b.minx)
        emptyy == Ceil(b.maxy) <= Floor(b.miny)
    IN  IF BufferIsEmpty(area_polygon, buffer_size)
        THEN [raised |-> "ValueError", tiles |-> <<>>]
        ELSE IF emptyx \/ emptyy
        THEN [raised |-> "IndexError", tiles |-> <<>>]
        ELSE LET xs == Coords(b.minx, b.maxx, grid_spacing)
                 ys == Coords(b.miny, b.maxy, grid_spacing)
                 ny == Len(ys)
                 all == [k \in 1..(Len(xs) * ny) |->
                            <<xs[((k - 1) \div ny) + 1], ys[((k - 1) % ny) + 1]>>]
                 keep(t) == Intersects(area_polygon, buffer_size,
                                       Square(t[1], t[2], grid_spacing))
             IN  [raised |-> "none", tiles |-> SelectSeq(all, keep)]

----------------------------------------------------------------------------
(* Inputs of the grid scenario                                             *)

\* GRID_SPACING of download_city_new.py, the default of
\* auto_download_orthophotos and the spacing of example_cross_border_area.
GridSpacings == {600, 1000, 2000}

\* x extents: on thousands, halfway between thousands, inside one
\* thousand, and with bounds that are not whole metres.
XExtents ==
    { <<M(0), M(3000)>>, <<M(500), M(2500)>>, <<M(1000), M(2000)>>,
      <<M(1200), M(1800)>>, <<MFrac(1000), MFrac(2400)>>, <<M(3000), M(4000)>> }
YExtents == { <<M(0), M(1000)>>, <<M(1200), M(1800)>> }

\* box(570000, 5370000, 580000, 5380000) of example_cross_border_area.
CrossBorderArea == Box(M(570000), M(5370000), M(580000), M(5380000))

GridAreas ==
    { Box(x[1], y[1], x[2], y[2]) : x \in XExtents, y \in YExtents }
        \cup {CrossBorderArea}

\* The (area, buffer_size, grid_spacing) triples _make_grid is called with.
\* Geometries without width: the coinciding bounds a whole number, and not.
DegenerateAreas ==
    { Box(M(2000), M(1200), M(2000), M(1800)), Box(MFrac(1500), M(1200), MFrac(1500), M(1800)) }

GridInputs ==
    { <<a, 0, s>> : a \in GridAreas, s \in GridSpacings }
        \cup { <<Box(x[1], M(1200), x[2], M(1800)), 100, 1000>> : x \in XExtents }
        \cup { <<a, 0, 1000>> : a \in DegenerateAreas }

----------------------------------------------------------------------------
(* Values: None, pathlib.Path and str                                      *)

\* A path or a text is held by its parts: the directory (a sequence of
\* names, each name a sequence of tokens), the number that is the file's stem, a suffix of the stem
\* ("" or "_mask") and the extension.  The tag t tells None, Path and str
\* apart, which is what isinstance and str() look at.
NoneVal == [t |-> "None", dir |-> <<>>, stem |-> 0, suffix |-> "", ext |-> ""]
PathVal(dir, stem, suffix, ext) ==
    [t |-> "Path", dir |-> dir, stem |-> stem, suffix |-> suffix, ext |-> ext]
DirVal(dir) == PathVal(dir, 0, "", "")

\* A str that is not the text of a path, such as "EPSG:25832".
StrVal(text) == [t |-> "str", dir |-> <<>>, stem |-> 0, suffix |-> text, ext |-> ""]

\* str(v): the text of a path, and the four letters "None" for None.
Str(v) == IF v.t = "None" THEN StrVal("None") ELSE [v EXCEPT !.t = "str"]

\* Path(v) of a str.
Path(v) == [v EXCEPT !.t = "Path"]

\* img_path.with_stem(f"{img_path.stem}_mask")
WithMaskStem(p) == [p EXCEPT !.suffix = "_mask"]

\* A file or directory as it is named on disk.
OnDisk(p) == [dir |-> p.dir, stem |-> p.stem, suffix |-> p.suffix, ext |-> p.ext]

\* dir.mkdir(parents=True, exist_ok=True): the directory and its parents.
Mkdir(dir) == { OnDisk(DirVal(SubSeq(dir, 1, k))) : k \in 1..Len(dir) }

\* dir_path.iterdir(): the files of the directory and its subdirectories.
IterDir(files, dir_path) ==
    { f \in files :
        \/ f.dir = dir_path /\ f # OnDisk(DirVal(dir_path))
        \/ /\ f = OnDisk(DirVal(f.dir))
           /\ Len(f.dir) = Len(dir_path) + 1
           /\ SubSeq(f.dir, 1, Len(dir_path)) = dir_path }

\* f.suffix not in [".png", ".tiff"]
NotAnImage(f) == f.ext \notin {"png", "tiff"}

\* delete_images with the check of the suffixes lost.
delete_images_NoSuffixCheck(files, dir_path, unlink_ok, removed) ==
    IF OnDisk(DirVal(dir_path)) \notin files
    THEN [returned |-> FALSE, files |-> files]
    ELSE IF ~unlink_ok
    THEN [returned |-> FALSE, files |-> files \ removed]
    ELSE [returned |-> TRUE,
          files |-> files \ (IterDir(files, dir_path) \cup {OnDisk(DirVal(dir_path))})]

\* ImageDownloader.delete_images(dir_path) on the files `files`: what it
\* returns and the files left.  unlink_ok tells whether every unlink and
\* the rmdir go through; when one raises, `removed` are the entries
\* unlinked before it.
delete_images(files, dir_path, unlink_ok, removed) ==
    IF OnDisk(DirVal(dir_path)) \notin files
    THEN [returned |-> FALSE, files |-> files]
    ELSE IF \E f \in IterDir(files, dir_path) : NotAnImage(f)
    THEN [returned |-> FALSE, files |-> files]
    ELSE IF ~unlink_ok
    THEN [returned |-> FALSE, files |-> files \ removed]
    ELSE [returned |-> TRUE,
          files |-> files \ (IterDir(files, dir_path) \cup {OnDisk(DirVal(dir_path))})]

----------------------------------------------------------------------------
(* ExtendedWebMapService and the downloader classes of wms_germany         *)

ServiceCrs == "EPSG:25832"

\* The classes wms_germany defines.
WmsGermanyClasses ==
    { "BW_RGB_Dop20_ImageDownloader", "BW_CIR_Dop20_ImageDownloader",
      "BY_RGB_Dop40_ImageDownloader", "BY_RGB_Dop20_ImageDownloader",
      "BY_CIR_Dop20_ImageDownloader", "BE_RGB_Dop20_ImageDownloader",
      "BE_CIR_Dop20_ImageDownloader", "BB_RGB_Dop20_ImageDownloader",
      "BB_CIR_Dop20_ImageDownloader", "HB_RGB_Dop20_ImageDownloader",
      "BHV_RGB_Dop20_ImageDownloader", "HH_RGB_Dop20_ImageDownloader",
      "HH_CIR_Dop20_ImageDownloader", "HE_RGB_Dop20_ImageDownloader",
      "HE_CIR_Dop20_ImageDownloader", "MV_RGB_Dop20_ImageDownloader",
      "MV_CIR_Dop20_ImageDownloader", "NI_RGB_Dop20_ImageDownloader",
      "NW_RGB_Dop20_ImageDownloader", "NW_CIR_Dop20_ImageDownloader",
      "RP_RGB_Dop20_ImageDownloader", "RP_CIR_Dop20_ImageDownloader",
      "SL_RGB_Dop20_ImageDownloader", "SL_CIR_Dop20_ImageDownloader",
      "ST_RGB_Dop20_ImageDownloader", "SN_RGB_Dop20_ImageDownloader",
      "SN_CIR_Dop20_ImageDownloader", "SH_RGB_Dop20_ImageDownloader",
      "TH_RGB_Dop20_ImageDownloader", "TH_CIR_Dop20_ImageDownloader" }

\* The service each class connects to: resolution in centimetres per pixel
\* (0.4 m for the DOP40 service, 0.2 m for all others) and crs.
DownloaderClasses ==
    [ c \in WmsGermanyClasses |->
        [resolution |-> IF c = "BY_RGB_Dop40_ImageDownloader" THEN 40 ELSE 20,
         crs |-> ServiceCrs] ]

NoDownloader ==
    [cls |-> "none", grid_spacing |-> 0, width_m |-> 0, height_m |-> 0,
     width_px |-> 0, height_px |-> 0, resolution |-> 0, crs |-> "none"]

\* Decimal(str(grid_spacing)) % Decimal(str(wms.resolution)) != 0, the
\* spacing in metres and the resolution in centimetres.
SpacingIsMultiple(grid_spacing, resolution) == (grid_spacing * 100) % resolution = 0

\* The fields ImageDownloader.__init__ sets.
ImageDownloaderFields(cls, wms, grid_spacing) ==
    [cls |-> cls, grid_spacing |-> grid_spacing,
     width_m |-> grid_spacing, height_m |-> grid_spacing,
     width_px |-> (grid_spacing * 100) \div wms.resolution,
     height_px |-> (grid_spacing * 100) \div wms.resolution,
     resolution |-> wms.resolution, crs |-> wms.crs]

\* What a subclass __init__ does, in order: ExtendedWebMapService(...),
\* whose WebMapService(url, version) asks the server for its capabilities
\* (`connects`: the request succeeds or raises), then
\* ImageDownloader.__init__, which sets the fields and only then checks
\* the spacing.  The result: the requests sent, the exception raised and
\* the downloader built.
ConstructDownloader(cls, grid_spacing, connects) ==
    LET wms == DownloaderClasses[cls]
        sent == <<[op |-> "connect", cls |-> cls, x |-> 0, y |-> 0]>>
    IN  IF ~connects
        THEN [net |-> sent, raised |-> "ConnectionError", downloader |-> NoDownloader]
        ELSE IF ~SpacingIsMultiple(grid_spacing, wms.resolution)
        THEN [net |-> sent, raised |-> "ValueError", downloader |-> NoDownloader]
        ELSE [net |-> sent, raised |-> "none",
              downloader |-> ImageDownloaderFields(cls, wms, grid_spacing)]

----------------------------------------------------------------------------
(* ImageDownloader._validate_geoseries, _prepare_image_download            *)

\* An argument passed as area_polygon or mask: its Python type, the length
\* of the series, its crs ("none" when the series carries no CRS) and the
\* geometry at index 0.
GeoArg(type, len, crs, geom) == [type |-> type, len |-> len, crs |-> crs, geom |-> geom]
NoMask == GeoArg("NoneType", 0, "none", Box(0, 0, 0, 0))

\* "ok", or the exception the checks raise in their order.  A series
\* without a CRS has crs None, and None.to_authority() raises
\* AttributeError before the comparison is made.
_validate_geoseries(geoseries, wms_crs) ==
    IF geoseries.type # "GeoSeries" THEN "ValueError"
    ELSE IF geoseries.len # 1 THEN "ValueError"
    ELSE IF geoseries.crs = "none" THEN "AttributeError"
    ELSE IF geoseries.crs # wms_crs THEN "ValueError"
    ELSE "ok"

\* shapely intersects of a square of the grid and the mask's geometry.
TileIntersects(t, grid_spacing, geom) ==
    Intersects(geom, 0, Square(t[1], t[2], grid_spacing))

\* FilterByMask with the filter lost: the whole grid is kept.
FilterByMask_KeepsAll(tiles, grid_spacing, mask) == tiles

\* grid.loc[grid.intersects(mask.iloc[0])]
FilterByMask(tiles, grid_spacing, mask) ==
    LET keep(t) == TileIntersects(t, grid_spacing, mask.geom)
    IN  SelectSeq(tiles, keep)

\* _prepare_image_download: validate, build the grid, filter it.
_prepare_image_download(d, area_polygon, buffer_size, mask) ==
    LET va == _validate_geoseries(area_polygon, d.crs)
        vm == IF mask.type = "NoneType" THEN "ok" ELSE _validate_geoseries(mask, d.crs)
        g == _make_grid(area_polygon.geom, buffer_size, d.grid_spacing)
    IN  IF va # "ok" THEN [raised |-> va, grid_made |-> FALSE, tiles |-> <<>>]
        ELSE IF vm # "ok" THEN [raised |-> vm, grid_made |-> FALSE, tiles |-> <<>>]
        ELSE IF g.raised # "none" THEN [raised |-> g.raised, grid_made |-> FALSE, tiles |-> <<>>]
        ELSE [raised |-> "none", grid_made |-> TRUE,
              tiles |-> IF mask.type = "NoneType" THEN g.tiles
                        ELSE FilterByMask(g.tiles, d.grid_spacing, mask)]

----------------------------------------------------------------------------
(* Image, download_single_image and the failure placeholder                *)

\* The steps of download_single_image that can raise, in order; "ok" when
\* none does.  The two mask steps exist only when a mask is passed.
TileOutcomes(mask) ==
    {"ok", "getmap", "decode", "open_image", "write_image"}
        \cup (IF mask.type = "NoneType" THEN {} ELSE {"rasterize", "write_mask"})

\* SuccessImage with the lengths in metres taken to be the pixel counts.
SuccessImage_WidthInPixels(img_path, t, d, mask) ==
    [image_path |-> img_path,
     mask_path |-> IF mask.type = "NoneType" THEN NoneVal ELSE WithMaskStem(img_path),
     upper_left_x |-> t[1], upper_left_y |-> t[2] + d.grid_spacing,
     width_m |-> d.width_px, height_m |-> d.height_px,
     width_px |-> d.width_px, height_px |-> d.height_px,
     resolution_m |-> d.resolution, crs |-> StrVal(d.crs)]

\* Image(...) as download_single_image returns it; lengths in metres are
\* kept in centimetres since width_px * resolution is.
SuccessImage(img_path, t, d, mask) ==
    [image_path |-> img_path,
     mask_path |-> IF mask.type = "NoneType" THEN NoneVal ELSE WithMaskStem(img_path),
     upper_left_x |-> t[1], upper_left_y |-> t[2] + d.grid_spacing,
     width_m |-> d.width_px * d.resolution, height_m |-> d.height_px * d.resolution,
     width_px |-> d.width_px, height_px |-> d.height_px,
     resolution_m |-> d.resolution, crs |-> StrVal(d.crs)]

\* PlaceholderImage with the mask path left as it is derived for a tile:
\* the Image of a failed tile names a mask file.
PlaceholderImage_WithMaskPath(t, d) ==
    [image_path |-> NoneVal,
     mask_path |-> PathVal(<<>>, 0, "_mask", ""),
     upper_left_x |-> t[1], upper_left_y |-> t[2] + d.grid_spacing,
     width_m |-> d.grid_spacing * 100, height_m |-> d.grid_spacing * 100,
     width_px |-> d.width_px, height_px |-> d.height_px,
     resolution_m |-> d.resolution, crs |-> StrVal(d.crs)]

\* The Image appended by the except branch of the loop.
PlaceholderImage(t, d) ==
    [image_path |-> NoneVal,
     mask_path |-> NoneVal,
     upper_left_x |-> t[1], upper_left_y |-> t[2] + d.grid_spacing,
     width_m |-> d.grid_spacing * 100, height_m |-> d.grid_spacing * 100,
     width_px |-> d.width_px, height_px |-> d.height_px,
     resolution_m |-> d.resolution, crs |-> StrVal(d.crs)]

\* The files download_single_image has created when it returns or raises:
\* rasterio.open(.., "w") creates the file, so a failing write leaves it.
\* The mask file is opened only when a mask is passed.
FilesWritten(img_path, mask, outcome) ==
    CASE outcome \in {"getmap", "decode", "open_image"} -> {}
      [] outcome \in {"write_image", "rasterize"} -> {OnDisk(img_path)}
      [] outcome = "write_mask" -> {OnDisk(img_path), OnDisk(WithMaskStem(img_path))}
      [] OTHER -> IF mask.type = "NoneType" THEN {OnDisk(img_path)}
                  ELSE {OnDisk(img_path), OnDisk(WithMaskStem(img_path))}

\* TileImage with the except branch lost: the Image of a failed tile still
\* carries the path it should have been written to.
TileImage_PathOnFailure(i, t, d, out_path, file_extension, mask, outcome) ==
    SuccessImage(PathVal(out_path, i + 1, "", file_extension), t, d, mask)

\* One iteration of the loop of download_images_from_polygon for tile t
\* (0-based index i): the Image appended to `images`.
TileImage(i, t, d, out_path, file_extension, mask, outcome) ==
    IF outcome = "ok"
    THEN SuccessImage(PathVal(out_path, i + 1, "", file_extension), t, d, mask)
    ELSE PlaceholderImage(t, d)

\* GetmapRequests with a second attempt for the tile.
GetmapRequests_Twice(d, t) ==
    [k \in 1..2 |-> [op |-> "getmap", cls |-> d.cls, x |-> t[1], y |-> t[2]]]

\* The requests download_single_image sends for the tile t: wms.getmap is
\* called once, with the tile's bounds and the size in pixels.
GetmapRequests(d, t) ==
    <<[op |-> "getmap", cls |-> d.cls, x |-> t[1], y |-> t[2]]>>

\* PcAfterGetmapSent with a getmap that returns before the response is in.
PcAfterGetmapSent_NoWait == "tiles"

\* wms.getmap(...) returns with the response: while the request is out,
\* download_single_image is inside that call.
PcAfterGetmapSent == "getmap"

----------------------------------------------------------------------------
(* AreaDataset                                                             *)

NoDataset ==
    [name |-> <<"none">>, polygon |-> Box(0, 0, 0, 0), buffer_size |-> 0,
     out_path |-> NoneVal, images |-> <<>>, has_images |-> FALSE]

\* AreaDataset.__post_init__ on the polygon it is given, after the mkdir: a
\* geometry that is no Polygon is passed to open(), which takes no
\* geometry and raises TypeError.
AreaDataset_polygon_check(geom) ==
    IF GeomType(geom) = "Polygon" THEN "none" ELSE "TypeError"

\* AreaDataset(name, polygon, buffer_size, out_path) with images attached.
AreaDataset(name, polygon, buffer_size, out_path, images) ==
    [name |-> name, polygon |-> polygon, buffer_size |-> buffer_size,
     out_path |-> out_path, images |-> images, has_images |-> TRUE]

\* AreaDataset(name, polygon, buffer_size, out_path): images stays None.
AreaDatasetNoImages(name, polygon, buffer_size, out_path) ==
    [name |-> name, polygon |-> polygon, buffer_size |-> buffer_size,
     out_path |-> out_path, images |-> <<>>, has_images |-> FALSE]

----------------------------------------------------------------------------
(* Inputs of the download scenario                                         *)

\* Spacings passed to a constructor: 1 and 3 are no multiples of 0.4.
CtorSpacings == {1, 3} \cup GridSpacings
CtorClasses == {"BW_RGB_Dop20_ImageDownloader", "BY_RGB_Dop40_ImageDownloader"}

InsideOneTile == Box(M(1200), M(1200), M(1800), M(1800))
OnThousands == Box(M(1000), M(1000), M(2000), M(2000))
\* A strip over the middle column of the 3 x 3 grid of OnThousands.
MiddleColumn == Box(M(1200), M(0), M(1800), M(3000))

Series(geom) == GeoArg("GeoSeries", 1, ServiceCrs, geom)

\* What can be wrong with an argument.
BadArgs(geom) ==
    { GeoArg("GeoDataFrame", 1, ServiceCrs, geom), GeoArg("GeoSeries", 2, ServiceCrs, geom),
      GeoArg("GeoSeries", 1, "none", geom), GeoArg("GeoSeries", 1, "EPSG:4326", geom) }

\* A line, as an intersection on a border is.
BorderLine == Box(M(2000), M(1200), M(2000), M(1800))

DownloadCases ==
    { [area_polygon |-> Series(InsideOneTile), mask |-> NoMask, buffer_size |-> 0],
      [area_polygon |-> Series(InsideOneTile), mask |-> Series(MiddleColumn), buffer_size |-> 0],
      [area_polygon |-> Series(OnThousands), mask |-> Series(MiddleColumn), buffer_size |-> 0],
      [area_polygon |-> Series(BorderLine), mask |-> NoMask, buffer_size |-> 0],
      [area_polygon |-> Series(BorderLine), mask |-> NoMask, buffer_size |-> 100] }
    \cup { [area_polygon |-> a, mask |-> NoMask, buffer_size |-> 0] : a \in BadArgs(InsideOneTile) }
    \cup { [area_polygon |-> Series(InsideOneTile), mask |-> m, buffer_size |-> 0] :
              m \in BadArgs(MiddleColumn) }

OutPath == << <<"out">> >>
FileExtension == "tiff"

NoCall ==
    [caller |-> "none", area_name |-> <<"none">>, area_polygon |-> NoMask, mask |-> NoMask,
     buffer_size |-> 0, out_path |-> <<>>]
NoCtorArgs == [cls |-> "none", grid_spacing |-> 0]

----------------------------------------------------------------------------
(* AutoOrthophotoDownloader                                                *)

STATE_TO_RGB_DOWNLOADER ==
    ("BW" :> "BW_RGB_Dop20_ImageDownloader") @@ ("BY" :> "BY_RGB_Dop20_ImageDownloader")
    @@ ("BE" :> "BE_RGB_Dop20_ImageDownloader") @@ ("BB" :> "BB_RGB_Dop20_ImageDownloader")
    @@ ("HB" :> "HB_RGB_Dop20_ImageDownloader") @@ ("HH" :> "HH_RGB_Dop20_ImageDownloader")
    @@ ("HE" :> "HE_RGB_Dop20_ImageDownloader") @@ ("MV" :> "MV_RGB_Dop20_ImageDownloader")
    @@ ("NI" :> "NI_RGB_Dop20_ImageDownloader") @@ ("NW" :> "NW_RGB_Dop20_ImageDownloader")
    @@ ("RP" :> "RP_RGB_Dop20_ImageDownloader") @@ ("SL" :> "SL_RGB_Dop20_ImageDownloader")
    @@ ("SN" :> "SN_RGB_Dop20_ImageDownloader") @@ ("ST" :> "ST_RGB_Dop20_ImageDownloader")
    @@ ("SH" :> "SH_RGB_Dop20_ImageDownloader") @@ ("TH" :> "TH_RGB_Dop20_ImageDownloader")

STATE_TO_CIR_DOWNLOADER ==
    ("BW" :> "BW_CIR_Dop20_ImageDownloader") @@ ("BY" :> "BY_CIR_Dop20_ImageDownloader")
    @@ ("BE" :> "BE_CIR_Dop20_ImageDownloader") @@ ("BB" :> "BB_CIR_Dop20_ImageDownloader")
    @@ ("HB" :> "HB_CIR_Dop20_ImageDownloader") @@ ("HH" :> "HH_CIR_Dop20_ImageDownloader")
    @@ ("HE" :> "HE_CIR_Dop20_ImageDownloader") @@ ("MV" :> "MV_CIR_Dop20_ImageDownloader")
    @@ ("NI" :> "NI_CIR_Dop20_ImageDownloader") @@ ("NW" :> "NW_CIR_Dop20_ImageDownloader")
    @@ ("RP" :> "RP_CIR_Dop20_ImageDownloader") @@ ("SL" :> "SL_CIR_Dop20_ImageDownloader")
    @@ ("SN" :> "SN_CIR_Dop20_ImageDownloader") @@ ("ST" :> "ST_CIR_Dop20_ImageDownloader")
    @@ ("SH" :> "SH_CIR_Dop20_ImageDownloader") @@ ("TH" :> "TH_CIR_Dop20_ImageDownloader")

\* _get_downloader_class: the class name, or the exception raised.
_get_downloader_class(state_code, image_type) ==
    IF image_type \notin {"RGB", "CIR"} THEN [raised |-> "ValueError", cls |-> "none"]
    ELSE LET downloader_mapping == IF image_type = "RGB" THEN STATE_TO_RGB_DOWNLOADER
                                   ELSE STATE_TO_CIR_DOWNLOADER
         IN  IF state_code \notin DOMAIN downloader_mapping
             THEN [raised |-> "ValueError", cls |-> "none"]
             ELSE IF downloader_mapping[state_code] \notin WmsGermanyClasses
             THEN [raised |-> "ImportError", cls |-> "none"]
             ELSE [raised |-> "none", cls |-> downloader_mapping[state_code]]

\* The boundary dataset read by _load_german_states, cut down to three
\* states that are boxes: name, id as split at "-", geometry.  A name is a
\* sequence of tokens, "/" being a token of its own; the third row is
\* named with a "/".
StatesGdf ==
    << [name |-> <<"Baden-Wuerttemberg">>, id |-> <<"DE", "BW">>,
        geometry |-> Box(M(0), M(0), M(2000), M(4000))],
       [name |-> <<"Bayern">>, id |-> <<"DE", "BY">>,
        geometry |-> Box(M(2000), M(0), M(4000), M(4000))],
       [name |-> <<"Niedersachsen", "/", "Bremen">>, id |-> <<"DE", "NI">>,
        geometry |-> Box(M(0), M(4000), M(4000), M(6000))] >>

\* The cache before the first load: self._states_gdf = None.
NoStatesGdf == <<>>

\* _load_german_states with the test of the cache lost: every call reads
\* the dataset.
_load_german_states_NoCache(cache, fetch_ok) ==
    IF fetch_ok
    THEN [fetched |-> TRUE, raised |-> "none", cache |-> StatesGdf]
    ELSE [fetched |-> TRUE, raised |-> "URLError", cache |-> cache]

\* _load_german_states: gpd.read_file(url) when the cache is None, which
\* returns the dataset or raises (fetch_ok); the cache is set only by a
\* read that returned.
_load_german_states(cache, fetch_ok) ==
    IF cache = NoStatesGdf
    THEN IF fetch_ok
         THEN [fetched |-> TRUE, raised |-> "none", cache |-> StatesGdf]
         ELSE [fetched |-> TRUE, raised |-> "URLError", cache |-> cache]
    ELSE [fetched |-> FALSE, raised |-> "none", cache |-> cache]

\* text.replace("/", "_")
ReplaceSlash(text) == [k \in 1..Len(text) |-> IF text[k] = "/" THEN "_" ELSE text[k]]

\* state_out_path = out_path / f"{state_name.replace('/', '_')}"
StateOutPath(out_path, state_name) == out_path \o <<ReplaceSlash(state_name)>>

\* shapely intersects of two boxes (closed sets).
BoxesIntersect(a, b) ==
    /\ a.minx <= b.maxx /\ b.minx <= a.maxx
    /\ a.miny <= b.maxy /\ b.miny <= a.maxy

\* Intersection giving the whole area back, not the part inside b.
Intersection_WholeArea(a, b) == a

\* shapely intersection of two boxes that intersect.
Intersection(a, b) ==
    Box(Max(a.minx, b.minx), Max(a.miny, b.miny), Min(a.maxx, b.maxx), Min(a.maxy, b.maxy))

\* detect_intersecting_states with the states that meet the area listed
\* last first.
detect_intersecting_states_Reversed(area_geom, states_gdf) ==
    LET meets(row) == BoxesIntersect(area_geom, row.geometry)
        rows == SelectSeq(states_gdf, meets)
    IN  [k \in 1..Len(rows) |->
            [state_name |-> rows[Len(rows) + 1 - k].name,
             state_code |-> rows[Len(rows) + 1 - k].id[Len(rows[Len(rows) + 1 - k].id)],
             intersection_geom |->
                 Intersection(area_geom, rows[Len(rows) + 1 - k].geometry)]]

\* detect_intersecting_states: (state_name, state_code, intersection) of
\* every state the area meets, in the order of the dataset.  Boxes that
\* meet have a non-empty intersection (a line or a point when they only
\* touch).
detect_intersecting_states(area_geom, states_gdf) ==
    LET meets(row) == BoxesIntersect(area_geom, row.geometry)
        rows == SelectSeq(states_gdf, meets)
    IN  [k \in 1..Len(rows) |->
            [state_name |-> rows[k].name,
             state_code |-> rows[k].id[Len(rows[k].id)],
             intersection_geom |-> Intersection(area_geom, rows[k].geometry)]]

\* state_prefix = f"{filename_prefix}_{state_code}" if filename_prefix else
\* state_code, as the sequence of its "_"-separated parts; a prefix of ""
\* stands for None, both being false.
state_prefix(filename_prefix, state_code) ==
    IF filename_prefix # "" THEN <<filename_prefix, state_code>> ELSE <<state_code>>

\* NoneIntersect with the check lost: the loop runs over the empty list.
NoneIntersect_Unchecked(found) == FALSE

\* `if not intersecting_states`: the list of detected states is empty.
NoneIntersect(found) == found = <<>>

\* The results dict after `results[state_name] = result`; state names are
\* distinct, so the key is new and goes last.
ResultsAfterSuccess(results, state_name, result) ==
    Append(results, [state_name |-> state_name, result |-> result])

\* ResultsAfterFailure with the failed state recorded under its name,
\* holding a dataset without images.
ResultsAfterFailure_Recorded(results, state_name) ==
    Append(results, [state_name |-> state_name, result |-> NoDataset])

\* The results dict after the except branch of the loop: log and continue.
ResultsAfterFailure(results, state_name) == results

----------------------------------------------------------------------------
(* Inputs of the coordinator scenario                                      *)

AutoSpacings == {1000}
ImageTypes == {"RGB", "CIR", "RGBI"}

\* In one state; across the BW/BY border; across the BW/NI border; only
\* touching Bayern; in Niedersachsen only; outside every state.
AutoAreas ==
    { InsideOneTile,
      Box(M(1200), M(1200), M(2800), M(1800)),
      Box(M(1200), M(3200), M(1800), M(4800)),
      Box(M(1200), M(1200), M(2000), M(1800)),
      Box(M(1200), M(4200), M(1800), M(4800)),
      Box(M(5000), M(7000), M(6000), M(8000)) }

AutoMasks ==
    { NoMask, GeoArg("GeoSeries", 1, "EPSG:4326", MiddleColumn),
      Series(Box(M(0), M(0), M(6000), M(6000))) }

\* filename_prefix: left out, or the prefix of the documented file names.
FilenamePrefixes == {"", "auto_rgb"}

\* The call made on the coordinator: the method entered, its arguments,
\* and whether the boundary dataset was cached when it was entered.
NoAutoArgs ==
    [entry |-> "none", grid_spacing |-> 0, image_type |-> "none", out_path |-> <<>>,
     filename_prefix |-> "", area_polygon |-> Box(0, 0, 0, 0), cached |-> FALSE]

\* What one pass of the loop of download_images_auto does for the state
\* `st` before the tiles are requested: _get_downloader_class, the
\* constructor, state_out_path.mkdir and the start of
\* download_images_from_polygon on the state's intersection.  state_prefix
\* is computed after the mkdir and is passed to nothing.
ProcessStateStart(auto, st, mask, buffer_size, connects) ==
    LET look == _get_downloader_class(st.state_code, auto.image_type)
        con == ConstructDownloader(look.cls, auto.grid_spacing, connects)
        state_out_path == StateOutPath(auto.out_path, st.state_name)
        prep == _prepare_image_download(con.downloader, Series(st.intersection_geom),
                                        buffer_size, mask)
        chk == AreaDataset_polygon_check(st.intersection_geom)
    IN  IF look.raised # "none"
        THEN [raised |-> look.raised, step |-> "lookup", net |-> <<>>, dirs |-> {},
              downloader |-> NoDownloader, tiles |-> <<>>]
        ELSE IF con.raised # "none"
        THEN [raised |-> con.raised, step |-> "construct", net |-> con.net, dirs |-> {},
              downloader |-> NoDownloader, tiles |-> <<>>]
        ELSE IF prep.raised # "none"
        THEN [raised |-> prep.raised, step |-> "download", net |-> con.net,
              dirs |-> Mkdir(state_out_path),
              downloader |-> con.downloader, tiles |-> <<>>]
        ELSE IF chk # "none"
        THEN [raised |-> chk, step |-> "download", net |-> con.net,
              dirs |-> Mkdir(state_out_path),
              downloader |-> con.downloader, tiles |-> <<>>]
        ELSE [raised |-> "none", step |-> "download", net |-> con.net,
              dirs |-> Mkdir(state_out_path),
              downloader |-> con.downloader, tiles |-> prep.tiles]

\* The names the module image_download defines.
image_download_names == {"Image", "AreaDataset", "ExtendedWebMapService", "ImageDownloader"}

\* from orthophotos_downloader.data_scraping.image_download import <name>
ImportFromImageDownload(name) ==
    IF name \in image_download_names THEN "none" ELSE "ImportError"

----------------------------------------------------------------------------
(* BKG_RGB_Dop20_ImageDownloader and the to_dict methods of the downloader *)

\* A text is a sequence of tokens, "__" being a token of its own, so that
\* split("__") has something to look for in any part of the text.
BKGUrlHead == "https://sg.geodatenzentrum.de/wms_dop"
SecretPlaceholder == "<secret_uuid>"

\* f"https://sg.geodatenzentrum.de/wms_dop__{uuid}?"
BKGUrl(uuid) == <<BKGUrlHead, "__">> \o uuid \o <<"?">>

\* text.split(sep)[0]: the tokens before the first sep.
SplitHead(text, sep) ==
    LET hits == { k \in 1..Len(text) : text[k] = sep }
        first == IF hits = {} THEN Len(text) + 1
                 ELSE CHOOSE k \in hits : \A j \in hits : k <= j
    IN  SubSeq(text, 1, first - 1)

\* BKG_RGB_Dop20_ImageDownloader(grid_spacing, uuid) once connected: the
\* fields of ImageDownloader, `wms` holding the ExtendedWebMapService and
\* the url and version kept by its WebMapService.
BKGDownloader(grid_spacing, uuid) ==
    [grid_spacing |-> grid_spacing, width_m |-> grid_spacing, height_m |-> grid_spacing,
     width_px |-> (grid_spacing * 100) \div 20, height_px |-> (grid_spacing * 100) \div 20,
     wms |-> [url |-> BKGUrl(uuid), version |-> "1.1.1", resolution |-> 20,
              layer_name |-> "rgb", crs |-> ServiceCrs, format |-> "image/tiff"]]

\* ExtendedWebMapService.to_dict: the fields but `wms`, and the url and
\* version of the WebMapService.
ExtendedWebMapService_to_dict(wms) ==
    [resolution |-> wms.resolution, layer_name |-> wms.layer_name, crs |-> wms.crs,
     format |-> wms.format, url |-> wms.url, version |-> wms.version]

\* ImageDownloader.to_dict: the numbers, and r["wms"] = self.wms.to_dict().
ImageDownloader_to_dict(d) ==
    [grid_spacing |-> d.grid_spacing, width_m |-> d.width_m, height_m |-> d.height_m,
     width_px |-> d.width_px, height_px |-> d.height_px,
     wms |-> ExtendedWebMapService_to_dict(d.wms)]

\* BKG to_dict without the replacement of the url.
BKG_to_dict_NotRedacted(d) == ImageDownloader_to_dict(d)

\* BKG_RGB_Dop20_ImageDownloader.to_dict:
\* r["wms"]["url"] = self.wms.wms.url.split("__")[0] + "__<secret_uuid>?"
BKG_to_dict(d) ==
    LET r == ImageDownloader_to_dict(d)
    IN  [r EXCEPT !.wms.url = SplitHead(d.wms.url, "__") \o <<"__", SecretPlaceholder, "?">>]

\* The uuids a BKG downloader is built with; one holds "__" itself.
Uuids == { <<"uuid-a">>, <<"uuid-b">>, <<"uuid-a", "__", "uuid-b">> }

NoBkg == [uuids |-> <<>>, downloaders |-> <<>>, dicts |-> <<>>]

----------------------------------------------------------------------------
(* Image.to_dict, Image.__post_init__, AreaDataset.to_dict, __post_init__  *)

\* {k: v if isinstance(v, Number) else str(v)}: the numbers stay, everything
\* else goes through str().
Image_to_dict(img) ==
    [img EXCEPT !.image_path = Str(img.image_path),
                !.mask_path = Str(img.mask_path),
                !.crs = Str(img.crs)]

\* Image(**d): a path that is neither a Path nor None is wrapped in Path().
Image_post_init(d) ==
    [d EXCEPT !.image_path = IF d.image_path.t \notin {"Path", "None"}
                             THEN Path(d.image_path) ELSE d.image_path,
              !.mask_path = IF d.mask_path.t \notin {"Path", "None"}
                            THEN Path(d.mask_path) ELSE d.mask_path]

\* save_polygon_to / "polygon.geojson"
PolygonFile(save_polygon_to) == PathVal(save_polygon_to, 0, "polygon", "geojson")

NoDict ==
    [name |-> <<"none">>, polygon |-> NoneVal, buffer_size |-> 0, out_path |-> NoneVal,
     images |-> <<>>]

\* AreaDataset.to_dict of a dataset with images, save_polygon_to a directory.
AreaDataset_to_dict(ds, save_polygon_to) ==
    [name |-> ds.name,
     polygon |-> Str(PolygonFile(save_polygon_to)),
     buffer_size |-> ds.buffer_size,
     out_path |-> Str(ds.out_path),
     images |-> [k \in 1..Len(ds.images) |-> Image_to_dict(ds.images[k])]]

\* AreaDataset_to_dict_call with the check made after the polygon is dumped.
AreaDataset_to_dict_call_CheckAfterWrite(ds, save_polygon_to) ==
    IF ~ds.has_images
    THEN [raised |-> "ValueError", written |-> {PolygonFile(save_polygon_to)}, dict |-> NoDict]
    ELSE [raised |-> "none", written |-> {PolygonFile(save_polygon_to)},
          dict |-> AreaDataset_to_dict(ds, save_polygon_to)]

\* A call of AreaDataset.to_dict: the exception raised, the polygon file
\* written and the dict returned.  images is None is checked first.
AreaDataset_to_dict_call(ds, save_polygon_to) ==
    IF ~ds.has_images
    THEN [raised |-> "ValueError", written |-> {}, dict |-> NoDict]
    ELSE [raised |-> "none", written |-> {PolygonFile(save_polygon_to)},
          dict |-> AreaDataset_to_dict(ds, save_polygon_to)]

\* AreaDataset(**d) of such a dict, the polygon file holding `geom`.
AreaDataset_post_init(d, geom) ==
    [name |-> d.name,
     polygon |-> geom,
     buffer_size |-> d.buffer_size,
     out_path |-> IF d.out_path.t # "Path" THEN Path(d.out_path) ELSE d.out_path,
     images |-> [k \in 1..Len(d.images) |-> Image_post_init(d.images[k])],
     has_images |-> TRUE]

----------------------------------------------------------------------------
VARIABLES
    pc,          \* which operation the program is in
    grids,       \* the _make_grid calls made so far: [area, buffer_size, grid_spacing, grid]
    net,         \* the requests sent so far, in order
    fs,          \* the files and directories created so far
    ctor_args,   \* the arguments of the constructor call
    downloader,  \* the ImageDownloader built
    raised,      \* the exception that ended the operation, "none" if none
    call,        \* the arguments of the running download_images_from_polygon
    grid,        \* the filtered grid of the running download
    images,      \* its local list `images`
    outcomes,    \* what happened to each tile requested so far
    result_obj,  \* the AreaDataset returned
    auto_args,   \* the coordinator's grid_spacing and the arguments of download_images_auto
    intersecting_states, \* the list detect_intersecting_states returned
    state_idx,   \* the position of the loop over intersecting_states
    results,     \* the dict `results`, its entries in insertion order
    processed,   \* per state handled so far: its name and the exception caught
    dumped,      \* the dict AreaDataset.to_dict returned
    geojson,     \* the polygon files written: path and geometry
    rehydrated,  \* the AreaDataset built from `dumped`
    in_flight,   \* the number of getmap requests sent and not yet answered
    _states_gdf, \* the coordinator's cache of the boundary dataset
    deletion,    \* the delete_images call made: its directory, the files before it, its result
    bkg          \* two BKG downloaders built alike but for the uuid, and their dicts

vars == <<pc, grids, net, fs, ctor_args, downloader, raised, call, grid, images,
          outcomes, result_obj, auto_args, intersecting_states, state_idx, results,
          processed, dumped, geojson, rehydrated, in_flight,
          _states_gdf, deletion, bkg>>

gridVars == <<grids>>
ctorVars == <<ctor_args>>
dlVars == <<call, grid, images, outcomes, result_obj>>
autoVars == <<auto_args, intersecting_states, state_idx, results, processed>>
dictVars == <<dumped, geojson, rehydrated>>

\* The reads of the boundary dataset among the requests sent.
ReadFile == [op |-> "read_file", cls |-> "none", x |-> 0, y |-> 0]
IsReadFile(r) == r.op = "read_file"
Loads == SelectSeq(net, IsReadFile)

\* No delete_images call has been made.
NoDeletion == [called |-> FALSE, dir_path |-> <<>>, before |-> {}, returned |-> FALSE]

Init ==
    /\ pc = "idle"
    /\ grids = <<>>
    /\ net = <<>>
    /\ fs = {}
    /\ ctor_args = NoCtorArgs
    /\ downloader = NoDownloader
    /\ raised = "none"
    /\ call = NoCall
    /\ grid = [made |-> FALSE, tiles |-> <<>>]
    /\ images = <<>>
    /\ outcomes = <<>>
    /\ result_obj = NoDataset
    /\ auto_args = NoAutoArgs
    /\ intersecting_states = <<>>
    /\ state_idx = 0
    /\ results = <<>>
    /\ processed = <<>>
    /\ dumped = NoDict
    /\ geojson = {}
    /\ rehydrated = NoDataset
    /\ in_flight = 0
    /\ _states_gdf = NoStatesGdf
    /\ deletion = NoDeletion
    /\ bkg = NoBkg

\* One call of ImageDownloader._make_grid.
MakeGridCall ==
    /\ UNCHANGED <<in_flight, bkg, _states_gdf, deletion>>
    /\ pc \in {"idle", "grid"}
    /\ Len(grids) < MaxGridCalls
    /\ \E in \in GridInputs :
          grids' = Append(grids, [area |-> in[1], buffer_size |-> in[2],
                                  grid_spacing |-> in[3],
                                  grid |-> _make_grid(in[1], in[2], in[3])])
    /\ pc' = "grid"
    /\ UNCHANGED <<net, fs, raised, downloader>>
    /\ UNCHANGED ctorVars
    /\ UNCHANGED dlVars
    /\ UNCHANGED autoVars
    /\ UNCHANGED dictVars

\* cls(grid_spacing=...): a downloader class of wms_germany is instantiated.
NewDownloader ==
    /\ UNCHANGED <<in_flight, bkg, _states_gdf, deletion>>
    /\ pc = "idle"
    /\ \E cls \in CtorClasses, s \in CtorSpacings, connects \in BOOLEAN :
          LET r == ConstructDownloader(cls, s, connects)
          IN  /\ ctor_args' = [cls |-> cls, grid_spacing |-> s]
              /\ net' = net \o r.net
              /\ raised' = r.raised
              /\ downloader' = r.downloader
              /\ pc' = IF r.raised = "none" THEN "ready" ELSE "done"
    /\ UNCHANGED <<fs>>
    /\ UNCHANGED gridVars
    /\ UNCHANGED dlVars
    /\ UNCHANGED autoVars
    /\ UNCHANGED dictVars

\* download_images_from_polygon up to its loop: _prepare_image_download,
\* then AreaDataset(...), whose __post_init__ makes the output directory.
DownloadStart ==
    /\ UNCHANGED <<in_flight, bkg, _states_gdf, deletion>>
    /\ pc = "ready"
    /\ downloader.grid_spacing \in GridSpacings
    /\ \E c \in DownloadCases :
          LET p == _prepare_image_download(downloader, c.area_polygon, c.buffer_size, c.mask)
              chk == AreaDataset_polygon_check(c.area_polygon.geom)
          IN  /\ call' = [caller |-> "direct", area_name |-> <<"area">>,
                          area_polygon |-> c.area_polygon, mask |-> c.mask,
                          buffer_size |-> c.buffer_size, out_path |-> OutPath]
              /\ IF p.raised # "none"
                 THEN /\ raised' = p.raised
                      /\ pc' = "done"
                      /\ UNCHANGED <<fs, grid>>
                 ELSE /\ grid' = [made |-> TRUE, tiles |-> p.tiles]
                      /\ fs' = fs \cup {OnDisk(DirVal(OutPath))}
                      /\ raised' = chk
                      /\ pc' = IF chk = "none" THEN "tiles" ELSE "done"
    /\ UNCHANGED <<net, downloader, images, outcomes, result_obj>>
    /\ UNCHANGED gridVars
    /\ UNCHANGED ctorVars
    /\ UNCHANGED autoVars
    /\ UNCHANGED dictVars

\* The start of one iteration of the loop: download_single_image sends the
\* getmap request of the next tile.
RequestTile ==
    /\ pc = "tiles"
    /\ Len(images) < Len(grid.tiles)
    /\ net' = net \o GetmapRequests(downloader, grid.tiles[Len(images) + 1])
    /\ in_flight' = in_flight + 1
    /\ pc' = PcAfterGetmapSent
    /\ UNCHANGED <<fs, raised, downloader, bkg, _states_gdf, deletion>>
    /\ UNCHANGED gridVars
    /\ UNCHANGED ctorVars
    /\ UNCHANGED dlVars
    /\ UNCHANGED autoVars
    /\ UNCHANGED dictVars

\* The rest of the iteration, from the answer to the request on:
\* download_single_image returns an Image or raises, and the except branch
\* of the loop appends the placeholder.
DownloadTile ==
    /\ pc = "getmap"
    /\ \E o \in TileOutcomes(call.mask) :
          LET i == Len(images)
              t == grid.tiles[i + 1]
              img_path == PathVal(call.out_path, i + 1, "", FileExtension)
          IN  /\ fs' = fs \cup FilesWritten(img_path, call.mask, o)
              /\ images' = Append(images, TileImage(i, t, downloader, call.out_path,
                                                    FileExtension, call.mask, o))
              /\ outcomes' = Append(outcomes, o)
    /\ in_flight' = in_flight - 1
    /\ pc' = "tiles"
    /\ UNCHANGED <<net, raised, downloader, call, grid, result_obj, bkg, _states_gdf, deletion>>
    /\ UNCHANGED gridVars
    /\ UNCHANGED ctorVars
    /\ UNCHANGED autoVars
    /\ UNCHANGED dictVars

\* The end of download_images_from_polygon: result_obj.images = images.
DownloadReturn ==
    /\ UNCHANGED <<in_flight, bkg, _states_gdf, deletion>>
    /\ pc = "tiles"
    /\ call.caller = "direct"
    /\ Len(images) = Len(grid.tiles)
    /\ result_obj' = AreaDataset(call.area_name, call.area_polygon.geom,
                                 call.buffer_size, DirVal(call.out_path), images)
    /\ pc' = "returned"
    /\ UNCHANGED <<net, fs, raised, downloader, call, grid, images, outcomes>>
    /\ UNCHANGED gridVars
    /\ UNCHANGED ctorVars
    /\ UNCHANGED autoVars
    /\ UNCHANGED dictVars

\* detect_intersecting_states called on the coordinator, any number of
\* times: the boundary dataset is loaded through the cache.
DetectStates ==
    /\ pc \in {"idle", "detect"}
    /\ \E a \in AutoAreas, fetch_ok \in BOOLEAN :
          LET load == _load_german_states(_states_gdf, fetch_ok)
          IN  /\ load.fetched => Len(Loads) < MaxLoads
              /\ _states_gdf' = load.cache
              /\ net' = IF load.fetched THEN Append(net, ReadFile) ELSE net
              /\ raised' = load.raised
              /\ intersecting_states' = IF load.raised = "none"
                                        THEN detect_intersecting_states(a, load.cache)
                                        ELSE <<>>
              /\ auto_args' = [NoAutoArgs EXCEPT !.entry = "detect_intersecting_states",
                                                 !.area_polygon = a,
                                                 !.cached = _states_gdf # NoStatesGdf]
    /\ pc' = "detect"
    /\ UNCHANGED <<fs, downloader, call, grid, images, outcomes, result_obj,
                   state_idx, results, processed, in_flight, bkg, deletion>>
    /\ UNCHANGED gridVars
    /\ UNCHANGED ctorVars
    /\ UNCHANGED dictVars

\* AutoOrthophotoDownloader(grid_spacing).download_images_auto(...) up to
\* its loop: detect_intersecting_states, which loads the boundary dataset
\* through the cache, and the check that some state intersects.
AutoStart ==
    /\ pc \in {"idle", "detect"}
    /\ \E s \in AutoSpacings, ty \in ImageTypes, a \in AutoAreas, m \in AutoMasks,
          fp \in FilenamePrefixes, fetch_ok \in BOOLEAN :
          LET load == _load_german_states(_states_gdf, fetch_ok)
              found == IF load.raised = "none"
                       THEN detect_intersecting_states(a, load.cache) ELSE <<>>
          IN  /\ load.fetched => Len(Loads) < MaxLoads
              /\ auto_args' = [entry |-> "download_images_auto", grid_spacing |-> s,
                               image_type |-> ty, out_path |-> OutPath,
                               filename_prefix |-> fp, area_polygon |-> a,
                               cached |-> _states_gdf # NoStatesGdf]
              /\ call' = [NoCall EXCEPT !.caller = "auto", !.area_polygon = Series(a),
                                        !.mask = m]
              /\ intersecting_states' = found
              /\ _states_gdf' = load.cache
              /\ net' = IF load.fetched THEN Append(net, ReadFile) ELSE net
              /\ IF load.raised # "none"
                 THEN raised' = load.raised /\ pc' = "done" /\ state_idx' = 0
                 ELSE IF NoneIntersect(found)
                 THEN raised' = "ValueError" /\ pc' = "done" /\ state_idx' = 0
                 ELSE raised' = "none" /\ pc' = "auto" /\ state_idx' = 1
    /\ UNCHANGED <<fs, downloader, grid, images, outcomes, result_obj, results, processed,
                   in_flight, bkg, deletion>>
    /\ UNCHANGED gridVars
    /\ UNCHANGED ctorVars
    /\ UNCHANGED dictVars

\* One pass of the loop over intersecting_states, up to the first tile
\* request or to the except branch.
AutoProcessState ==
    /\ UNCHANGED <<in_flight, bkg, _states_gdf, deletion>>
    /\ pc = "auto"
    /\ state_idx <= Len(intersecting_states)
    /\ \E connects \in BOOLEAN :
          LET st == intersecting_states[state_idx]
              r == ProcessStateStart(auto_args, st, call.mask, call.buffer_size, connects)
          IN  /\ net' = net \o r.net
              /\ fs' = fs \cup r.dirs
              /\ downloader' = r.downloader
              /\ IF r.raised # "none"
                 THEN /\ results' = ResultsAfterFailure(results, st.state_name)
                      /\ processed' = Append(processed,
                                             [state_name |-> st.state_name, raised |-> r.raised,
                                              step |-> r.step])
                      /\ state_idx' = state_idx + 1
                      /\ UNCHANGED <<pc, call, grid, images, outcomes>>
                 ELSE /\ call' = [call EXCEPT !.area_name = st.state_name,
                                              !.area_polygon = Series(st.intersection_geom),
                                              !.out_path = StateOutPath(auto_args.out_path,
                                                                        st.state_name)]
                      /\ grid' = [made |-> TRUE, tiles |-> r.tiles]
                      /\ images' = <<>>
                      /\ outcomes' = <<>>
                      /\ pc' = "tiles"
                      /\ UNCHANGED <<results, processed, state_idx>>
    /\ UNCHANGED <<raised, result_obj, auto_args, intersecting_states>>
    /\ UNCHANGED gridVars
    /\ UNCHANGED ctorVars
    /\ UNCHANGED dictVars

\* The download of one state returns: results[state_name] = result.
AutoStateDone ==
    /\ UNCHANGED <<in_flight, bkg, _states_gdf, deletion>>
    /\ pc = "tiles"
    /\ call.caller = "auto"
    /\ Len(images) = Len(grid.tiles)
    /\ LET st == intersecting_states[state_idx]
           result == AreaDataset(call.area_name, call.area_polygon.geom,
                                 call.buffer_size, DirVal(call.out_path), images)
       IN  /\ results' = ResultsAfterSuccess(results, st.state_name, result)
           /\ processed' = Append(processed, [state_name |-> st.state_name, raised |-> "none",
                                              step |-> "download"])
    /\ state_idx' = state_idx + 1
    /\ pc' = "auto"
    /\ UNCHANGED <<net, fs, raised, downloader, call, grid, images, outcomes, result_obj,
                   auto_args, intersecting_states>>
    /\ UNCHANGED gridVars
    /\ UNCHANGED ctorVars
    /\ UNCHANGED dictVars

\* download_images_auto returns `results`.
AutoReturn ==
    /\ UNCHANGED <<in_flight, bkg, _states_gdf, deletion>>
    /\ pc = "auto"
    /\ state_idx > Len(intersecting_states)
    /\ pc' = "auto_returned"
    /\ UNCHANGED <<net, fs, raised, downloader>>
    /\ UNCHANGED gridVars
    /\ UNCHANGED ctorVars
    /\ UNCHANGED dlVars
    /\ UNCHANGED autoVars
    /\ UNCHANGED dictVars

\* ImageDownloader.delete_images(out_path) called once the work on the
\* directory is over: before any download, on an empty directory, on the
\* images of a download, next to a dumped polygon, or on the directory
\* that holds the state directories.
DeleteImages ==
    /\ pc \in {"ready", "dataset", "returned", "dumped", "auto_returned"}
    /\ \E unlink_ok \in BOOLEAN, removed \in SUBSET IterDir(fs, OutPath) :
          /\ unlink_ok => removed = {}
          /\ Cardinality(removed) <= MaxUnlinked
          /\ LET r == delete_images(fs, OutPath, unlink_ok, removed)
             IN  /\ fs' = r.files
                 /\ deletion' = [called |-> TRUE, dir_path |-> OutPath, before |-> fs,
                                 returned |-> r.returned]
    /\ pc' = "deleted"
    /\ UNCHANGED <<net, raised, downloader, in_flight, bkg, _states_gdf>>
    /\ UNCHANGED gridVars
    /\ UNCHANGED ctorVars
    /\ UNCHANGED dlVars
    /\ UNCHANGED autoVars
    /\ UNCHANGED dictVars

\* AreaDataset(name, polygon, buffer_size, out_path) built by the caller:
\* __post_init__ makes the output directory, images is None.
NewDataset ==
    /\ pc = "idle"
    /\ \E polygon \in {InsideOneTile, OnThousands} :
          result_obj' = AreaDatasetNoImages(<<"area">>, polygon, 0, DirVal(OutPath))
    /\ fs' = fs \cup {OnDisk(DirVal(OutPath))}
    /\ pc' = "dataset"
    /\ UNCHANGED <<net, raised, downloader, call, grid, images, outcomes, in_flight, bkg,
                   _states_gdf, deletion>>
    /\ UNCHANGED gridVars
    /\ UNCHANGED ctorVars
    /\ UNCHANGED autoVars
    /\ UNCHANGED dictVars

\* result_obj.to_dict(out_path): the polygon is written next to the images,
\* unless the dataset has no images.
ToDict ==
    /\ UNCHANGED <<in_flight, bkg, _states_gdf, deletion>>
    /\ pc \in {"returned", "dataset"}
    /\ LET r == AreaDataset_to_dict_call(result_obj, result_obj.out_path.dir)
       IN  /\ dumped' = r.dict
           /\ geojson' = geojson \cup { [path |-> OnDisk(f), geom |-> result_obj.polygon] :
                                          f \in r.written }
           /\ fs' = fs \cup { OnDisk(f) : f \in r.written }
           /\ raised' = r.raised
           /\ pc' = IF r.raised = "none" THEN "dumped" ELSE "done"
    /\ UNCHANGED <<net, downloader, rehydrated>>
    /\ UNCHANGED gridVars
    /\ UNCHANGED ctorVars
    /\ UNCHANGED dlVars
    /\ UNCHANGED autoVars

\* AreaDataset(**dumped): the dataset is built again from the dict.
FromDict ==
    /\ UNCHANGED <<in_flight, bkg, _states_gdf, deletion>>
    /\ pc = "dumped"
    /\ \E f \in geojson :
          /\ f.path = OnDisk(Path(dumped.polygon))
          /\ rehydrated' = AreaDataset_post_init(dumped, f.geom)
    /\ fs' = fs \cup {OnDisk(Path(dumped.out_path))}
    /\ pc' = "rehydrated"
    /\ UNCHANGED <<net, raised, downloader, dumped, geojson>>
    /\ UNCHANGED gridVars
    /\ UNCHANGED ctorVars
    /\ UNCHANGED dlVars
    /\ UNCHANGED autoVars

\* download_rgbi_images_auto, called directly or by auto_download_orthophotos
\* with image_type "RGBI": its first statement imports RGBIImageDownloader
\* from image_download, outside any try.
DownloadRgbiImagesAuto ==
    /\ pc = "idle"
    /\ ImportFromImageDownload("RGBIImageDownloader") # "none"
    /\ \E s \in AutoSpacings, a \in AutoAreas, m \in AutoMasks,
          entry \in {"download_rgbi_images_auto", "auto_download_orthophotos"} :
          /\ auto_args' = [entry |-> entry, grid_spacing |-> s, image_type |-> "RGBI",
                           out_path |-> OutPath, filename_prefix |-> "",
                           area_polygon |-> a, cached |-> FALSE]
          /\ call' = [NoCall EXCEPT !.caller = "auto", !.area_polygon = Series(a),
                                    !.mask = m]
    /\ raised' = ImportFromImageDownload("RGBIImageDownloader")
    /\ pc' = "done"
    /\ UNCHANGED <<net, fs, downloader, grid, images, outcomes, result_obj,
                   intersecting_states, state_idx, results, processed, in_flight, bkg,
                   _states_gdf, deletion>>
    /\ UNCHANGED gridVars
    /\ UNCHANGED ctorVars
    /\ UNCHANGED dictVars

\* BKG_RGB_Dop20_ImageDownloader(grid_spacing, uuid), twice, the two calls
\* differing in the uuid at most; each connects to its service.
NewBKGDownloaders ==
    /\ pc = "idle"
    /\ \E u1 \in Uuids, u2 \in Uuids, s \in GridSpacings :
          bkg' = [uuids |-> <<u1, u2>>,
                  downloaders |-> <<BKGDownloader(s, u1), BKGDownloader(s, u2)>>,
                  dicts |-> <<>>]
    /\ net' = net \o [k \in 1..2 |-> [op |-> "connect", cls |-> "BKG_RGB_Dop20_ImageDownloader",
                                       x |-> 0, y |-> 0]]
    /\ pc' = "bkg"
    /\ UNCHANGED <<fs, raised, downloader, in_flight, _states_gdf, deletion>>
    /\ UNCHANGED gridVars
    /\ UNCHANGED ctorVars
    /\ UNCHANGED dlVars
    /\ UNCHANGED autoVars
    /\ UNCHANGED dictVars

\* to_dict() of both BKG downloaders.
BKGToDict ==
    /\ pc = "bkg"
    /\ bkg' = [bkg EXCEPT !.dicts = [k \in 1..2 |-> BKG_to_dict(bkg.downloaders[k])]]
    /\ pc' = "bkg_dumped"
    /\ UNCHANGED <<net, fs, raised, downloader, in_flight, _states_gdf, deletion>>
    /\ UNCHANGED gridVars
    /\ UNCHANGED ctorVars
    /\ UNCHANGED dlVars
    /\ UNCHANGED autoVars
    /\ UNCHANGED dictVars

Next ==
    \/ MakeGridCall
    \/ NewDownloader
    \/ DownloadStart
    \/ RequestTile
    \/ DownloadTile
    \/ DownloadReturn
    \/ DetectStates
    \/ AutoStart
    \/ AutoProcessState
    \/ AutoStateDone
    \/ AutoReturn
    \/ NewDataset
    \/ ToDict
    \/ FromDict
    \/ DeleteImages
    \/ DownloadRgbiImagesAuto
    \/ NewBKGDownloaders
    \/ BKGToDict

Spec == Init /\ [][Next]_vars

----------------------------------------------------------------------------
(* Properties of the tile grid                                             *)

\* The point (px, py), in 1/Den metre, lies in the area expanded by the buffer.
InBuffered(area, buffer_size, px, py) ==
    LET dx == AxisGap(area.minx, area.maxx, px, px)
        dy == AxisGap(area.miny, area.maxy, py, py)
        b == M(buffer_size)
    IN  dx <= b /\ dy <= b /\ dx * dx + dy * dy <= b * b

\* The point lies in the closed square t of side s.
InTile(t, s, px, py) ==
    /\ M(t[1]) <= px /\ px <= M(t[1] + s)
    /\ M(t[2]) <= py /\ py <= M(t[2] + s)

\* Where a gap of the grid can show on one axis: the bounds of the
\* expanded area and the points 1/Den metre outside each edge of a tile.
ProbeCoords(lo, hi, origins, s) ==
    {lo, hi} \cup { M(o) - 1 : o \in origins } \cup { M(o + s) + 1 : o \in origins }

\* Every probed point of the expanded area lies in some tile of the grid.
GridCovers(g) ==
    LET tiles == g.grid.tiles
        b == BufferedBounds(g.area, g.buffer_size)
        xs == ProbeCoords(b.minx, b.maxx, { tiles[k][1] : k \in 1..Len(tiles) }, g.grid_spacing)
        ys == ProbeCoords(b.miny, b.maxy, { tiles[k][2] : k \in 1..Len(tiles) }, g.grid_spacing)
    IN  \A px \in xs, py \in ys :
            InBuffered(g.area, g.buffer_size, px, py)
                => \E k \in 1..Len(tiles) : InTile(tiles[k], g.grid_spacing, px, py)

\* Two squares of side s have a common interior point.
InteriorsMeet(t, u, s) ==
    /\ t[1] < u[1] + s /\ u[1] < t[1] + s
    /\ t[2] < u[2] + s /\ u[2] < t[2] + s

\* The square t has a common interior point with the area.
OverlapsArea(t, s, area) ==
    /\ M(t[1]) < area.maxx /\ area.minx < M(t[1] + s)
    /\ M(t[2]) < area.maxy /\ area.miny < M(t[2] + s)

\* C6: for every polygon, buffer >= 0 and spacing, the union of the tiles
\* _make_grid returns contains every point of the polygon expanded by the
\* buffer.
C6_GridCoversArea ==
    \A k \in 1..Len(grids) : grids[k].grid.raised = "none" => GridCovers(grids[k])

\* C7: the 10 km square on multiples of 2000, spacing 2000, buffer 0, gets
\* exactly 25 tiles, pairwise non-overlapping, and none of them only
\* touches the square.
C7_CrossBorderHas25Tiles ==
    \A k \in 1..Len(grids) :
        LET g == grids[k]
            tiles == g.grid.tiles
        IN  (g.area = CrossBorderArea /\ g.grid_spacing = 2000 /\ g.buffer_size = 0)
                => /\ g.grid.raised = "none"
                   /\ Len(tiles) = 25
                   /\ \A i, j \in 1..Len(tiles) :
                          i # j => ~InteriorsMeet(tiles[i], tiles[j], g.grid_spacing)
                   /\ \A i \in 1..Len(tiles) : OverlapsArea(tiles[i], g.grid_spacing, g.area)

\* C8: two tiles taken from the outputs of calls with the same spacing are
\* the identical square or have disjoint interiors, and one grid holds no
\* square twice.
C8_GridsAligned ==
    \A j, k \in 1..Len(grids) :
        (grids[j].grid_spacing = grids[k].grid_spacing)
            => \A p \in 1..Len(grids[j].grid.tiles), q \in 1..Len(grids[k].grid.tiles) :
                   LET t == grids[j].grid.tiles[p]
                       u == grids[k].grid.tiles[q]
                   IN  \/ j = k /\ p = q
                       \/ j # k /\ t = u
                       \/ ~InteriorsMeet(t, u, grids[j].grid_spacing)

----------------------------------------------------------------------------
(* Properties of the constructors and of the area download                 *)

\* The getmap requests among the requests sent.
IsGetmap(r) == r.op = "getmap"
Requests == SelectSeq(net, IsGetmap)

\* An argument is a GeoSeries of length 1 in the service's CRS.
WellFormed(a) == a.type = "GeoSeries" /\ a.len = 1 /\ a.crs = ServiceCrs

\* C1: the returned dataset has one entry per tile of the filtered grid, in
\* grid order; entry k has a null image_path exactly when the acquisition of
\* tile k raised; every tile is attempted whatever happened to the earlier
\* ones.
C1_OneImagePerTile ==
    /\ pc = "returned" =>
          /\ result_obj.has_images
          /\ Len(result_obj.images) = Len(grid.tiles)
          /\ Len(outcomes) = Len(grid.tiles)
          /\ Len(Requests) = Len(grid.tiles)
          /\ \A k \in 1..Len(grid.tiles) :
                /\ (result_obj.images[k].image_path = NoneVal) <=> (outcomes[k] # "ok")
                /\ outcomes[k] = "ok" =>
                      result_obj.images[k].image_path
                          = PathVal(call.out_path, k, "", FileExtension)
                /\ result_obj.images[k].upper_left_x = grid.tiles[k][1]
                /\ result_obj.images[k].upper_left_y
                      = grid.tiles[k][2] + downloader.grid_spacing
                /\ Requests[k].x = grid.tiles[k][1] /\ Requests[k].y = grid.tiles[k][2]
    /\ (pc = "tiles" /\ Len(images) < Len(grid.tiles)) =>
          /\ Len(outcomes) = Len(images)
          /\ ENABLED RequestTile

\* C1 witness: a download has returned in which a tile failed and a later
\* tile succeeded.
C1_Witness ==
    /\ pc = "returned"
    /\ \E j, k \in 1..Len(outcomes) :
          /\ j < k
          /\ outcomes[j] # "ok" /\ outcomes[k] = "ok"
          /\ result_obj.images[j].image_path = NoneVal
          /\ result_obj.images[k].image_path # NoneVal

\* C4: an area polygon or mask that is not a GeoSeries of length 1 in the
\* service's CRS makes the call raise ValueError before the grid is
\* computed, before any getmap request and before anything is created on
\* disk.
C4_InvalidInputRaisesValueError ==
    (call.caller = "direct"
        /\ (~WellFormed(call.area_polygon)
              \/ (call.mask.type # "NoneType" /\ ~WellFormed(call.mask))))
        => /\ pc = "done"
           /\ raised = "ValueError"
           /\ ~grid.made
           /\ Requests = <<>>
           /\ fs = {}

\* C5: a grid spacing that is no multiple of the service resolution makes
\* the construction of a downloader fail with ValueError before any network
\* call, the connection request of the service included.
C5_BadSpacingFailsBeforeNetwork ==
    (ctor_args.cls # "none"
        /\ (ctor_args.grid_spacing * 100) % DownloaderClasses[ctor_args.cls].resolution # 0)
        => (pc = "done" /\ (raised = "ValueError" => net = <<>>))

----------------------------------------------------------------------------
(* Properties of the coordinator and of the dictionary round trip          *)

Succeeded(p) == p.raised = "none"

\* C2: when the class lookup, the construction or the download of a state
\* raises, the other states are still processed, and the mapping returned
\* holds exactly the states that did not raise, under their names.
C2_FailedStateOmitted ==
    /\ pc = "auto_returned" =>
          LET ok == SelectSeq(processed, Succeeded)
          IN  /\ Len(processed) = Len(intersecting_states)
              /\ \A k \in 1..Len(processed) :
                    processed[k].state_name = intersecting_states[k].state_name
              /\ Len(results) = Len(ok)
              /\ \A k \in 1..Len(ok) :
                    /\ results[k].state_name = ok[k].state_name
                    /\ results[k].result.has_images
    /\ (pc = "auto" /\ state_idx <= Len(intersecting_states)) => ENABLED AutoProcessState

\* C2 witness: two states were detected, the first one failed, and the
\* mapping returned holds the second one only.
C2_Witness ==
    /\ pc = "auto_returned"
    /\ Len(intersecting_states) = 2
    /\ processed[1].raised # "none"
    /\ processed[2].raised = "none"
    /\ Len(results) = 1
    /\ results[1].state_name = intersecting_states[2].state_name

\* C3: download_images_auto never returns an empty mapping: it raises or
\* returns at least one state.
C3_NeverEmptyMapping ==
    pc = "auto_returned" => results # <<>>

\* C10: to_dict followed by AreaDataset(**dict) keeps the number of images
\* and, per index, image_path, upper-left coordinates and dimensions; a null
\* image_path stays null.
C10_RoundTrip ==
    pc = "rehydrated" =>
        /\ Len(rehydrated.images) = Len(result_obj.images)
        /\ \A k \in 1..Len(result_obj.images) :
              LET a == result_obj.images[k]
                  b == rehydrated.images[k]
              IN  /\ b.image_path = a.image_path
                  /\ b.upper_left_x = a.upper_left_x /\ b.upper_left_y = a.upper_left_y
                  /\ b.width_m = a.width_m /\ b.height_m = a.height_m
                  /\ b.width_px = a.width_px /\ b.height_px = a.height_px

----------------------------------------------------------------------------
(* Properties of the images, of to_dict and of the file names              *)

\* What holds of one Image of a download that was given `mask`.
PathsAgree(img, mask) ==
    /\ img.image_path = NoneVal => img.mask_path = NoneVal
    /\ img.image_path # NoneVal =>
          ((img.mask_path # NoneVal) <=> (mask.type # "NoneType"))

\* C11: in a dataset returned by download_images_from_polygon, an Image
\* with a null image_path has a null mask_path, with or without a mask; an
\* Image with an image_path has a mask_path exactly when a mask was passed.
C11_MaskPathFollowsImagePath ==
    /\ pc = "returned" =>
          \A k \in 1..Len(result_obj.images) : PathsAgree(result_obj.images[k], call.mask)
    /\ \A j \in 1..Len(results) :
          \A k \in 1..Len(results[j].result.images) :
              PathsAgree(results[j].result.images[k], call.mask)

\* C11 witness: a download with a mask has returned a failed tile and a
\* written tile that has its mask file.
C11_Witness ==
    /\ pc = "returned"
    /\ call.mask.type # "NoneType"
    /\ \E j, k \in 1..Len(result_obj.images) :
          /\ outcomes[j] # "ok"
          /\ result_obj.images[j].image_path = NoneVal
          /\ result_obj.images[j].mask_path = NoneVal
          /\ outcomes[k] = "ok"
          /\ result_obj.images[k].mask_path = WithMaskStem(result_obj.images[k].image_path)

\* C12: to_dict of a dataset whose images is None raises ValueError and
\* changes nothing: no polygon file is written, the dataset stays as it was.
\* The step of to_dict is the one from "dataset" that is not delete_images.
C12_ToDictWithoutImagesRaises ==
    [][(pc = "dataset" /\ pc' # "deleted") =>
          /\ pc' = "done"
          /\ raised' = "ValueError"
          /\ fs' = fs
          /\ geojson' = geojson
          /\ dumped' = dumped
          /\ result_obj' = result_obj]_vars

\* C12 witness: to_dict was called on a dataset without images and raised.
C12_Witness ==
    /\ pc = "done"
    /\ result_obj.name = <<"area">>
    /\ ~result_obj.has_images
    /\ raised = "ValueError"
    /\ fs = {OnDisk(DirVal(OutPath))}

\* The code of the detected state called `state_name`.
CodeOf(state_name) ==
    LET k == CHOOSE k \in 1..Len(intersecting_states) :
                 intersecting_states[k].state_name = state_name
    IN  intersecting_states[k].state_code

\* The "_"-separated parts of the stem of a tile file: a tile file is named
\* by its index alone.
StemParts(p) == [prefix |-> <<>>, index |-> p.stem]

\* C13: every tile file written by download_images_auto lies in the
\* directory of its state and is named {prefix}_{code}_{index} when a
\* filename_prefix was given, {code}_{index} otherwise.
C13_FilesCarryStatePrefix ==
    pc = "auto_returned" =>
        \A j \in 1..Len(results) :
            \A k \in 1..Len(results[j].result.images) :
                LET p == results[j].result.images[k].image_path
                IN  p # NoneVal =>
                        /\ p.dir = StateOutPath(auto_args.out_path, results[j].state_name)
                        /\ StemParts(p)
                              = [prefix |-> state_prefix(auto_args.filename_prefix,
                                                         CodeOf(results[j].state_name)),
                                 index |-> k]

----------------------------------------------------------------------------
(* Properties of the coordinator's errors                                  *)

\* C14: when no state intersects the area, download_images_auto raises
\* ValueError before any downloader is constructed, any directory is
\* created and any tile is requested.
C14_NoStateRaisesFirst ==
    (auto_args.entry = "download_images_auto" /\ _states_gdf # NoStatesGdf
        /\ intersecting_states = <<>>) =>
        /\ pc = "done"
        /\ raised = "ValueError"
        /\ downloader = NoDownloader
        /\ fs = {}
        /\ \A k \in 1..Len(net) : net[k].op \notin {"connect", "getmap"}
        /\ results = <<>> /\ processed = <<>>

\* C14 witness: download_images_auto was called with an area outside every
\* state and has raised.
C14_Witness ==
    /\ auto_args.entry = "download_images_auto"
    /\ detect_intersecting_states(call.area_polygon.geom, StatesGdf) = <<>>
    /\ pc = "done"
    /\ raised = "ValueError"

\* C15: an image_type other than RGB or CIR passed to download_images_auto
\* is raised to the caller as an error, before the boundaries are loaded,
\* a directory is created or a service is contacted.
C15_UnknownKindRaisesBeforeIO ==
    (auto_args.entry = "download_images_auto" /\ auto_args.image_type \notin {"RGB", "CIR"}) =>
        /\ pc = "done"
        /\ raised = "ValueError"
        /\ net = <<>>
        /\ fs = {}

\* download_rgbi_images_auto was called, for an area that some state meets.
RgbiCallOverStates ==
    /\ auto_args.entry \in {"download_rgbi_images_auto", "auto_download_orthophotos"}
    /\ detect_intersecting_states(call.area_polygon.geom, StatesGdf) # <<>>

\* C16: download_rgbi_images_auto contacts the RGB and the CIR service of
\* every detected state and returns a mapping from state names to merged
\* datasets, in which a tile is a placeholder when either download failed.
C16_RgbiReturnsMergedMapping ==
    RgbiCallOverStates =>
        /\ pc = "auto_returned"
        /\ \A k \in 1..Len(processed) :
              \A ty \in {"RGB", "CIR"} :
                  \E n \in 1..Len(net) :
                      /\ net[n].op = "connect"
                      /\ net[n].cls = _get_downloader_class(
                                          CodeOf(processed[k].state_name), ty).cls
        /\ \A j \in 1..Len(results) : results[j].result.has_images

\* C17: download_rgbi_images_auto does not raise when the downloaders of a
\* state cannot be resolved, constructed or run.
C17_RgbiDoesNotRaise ==
    RgbiCallOverStates => raised = "none"

----------------------------------------------------------------------------
(* Properties of the serialized BKG downloader                             *)

\* The tokens of a uuid that are no separator.
SecretTokens(uuid) == { uuid[k] : k \in 1..Len(uuid) } \ {"__"}

\* C18: the dicts of two BKG downloaders that differ in the uuid only are
\* equal, their url ends in the placeholder, and no token of a uuid is in
\* the url.
C18_DictIndependentOfUuid ==
    pc = "bkg_dumped" =>
        /\ bkg.dicts[1] = bkg.dicts[2]
        /\ \A k \in 1..2 :
              LET url == bkg.dicts[k].wms.url
              IN  /\ url = <<BKGUrlHead, "__", SecretPlaceholder, "?">>
                  /\ \A n \in 1..Len(url) : url[n] \notin SecretTokens(bkg.uuids[k])

\* C18 witness: two downloaders with different uuids, one of them holding
\* "__", have been serialized.
C18_Witness ==
    /\ pc = "bkg_dumped"
    /\ bkg.uuids[1] # bkg.uuids[2]
    /\ \E n \in 1..Len(bkg.uuids[2]) : bkg.uuids[2][n] = "__"
    /\ bkg.downloaders[1].wms.url # bkg.downloaders[2].wms.url

----------------------------------------------------------------------------
(* Properties of the order of requests and tiles                           *)

IsConnect(r) == r.op = "connect"
Connects == SelectSeq(net, IsConnect)

C20_TilesInXMajorOrder ==
    /\ \A g \in 1..Len(grids) :
          LET tiles == grids[g].grid.tiles
          IN  \A i, j \in 1..Len(tiles) :
                  i < j => \/ tiles[i][1] < tiles[j][1]
                           \/ tiles[i][1] = tiles[j][1] /\ tiles[i][2] < tiles[j][2]
    /\ pc = "returned" =>
          /\ Len(result_obj.images) = Len(grid.tiles)
          /\ \A k \in 1..Len(result_obj.images) :
                /\ result_obj.images[k].upper_left_x = grid.tiles[k][1]
                /\ outcomes[k] = "ok" => result_obj.images[k].image_path.stem = k

----------------------------------------------------------------------------
(* Requests, files on disk and the boundary dataset                        *)

\* The number of Images in the datasets of a results mapping.
RECURSIVE ImagesIn(_)
ImagesIn(rs) ==
    IF rs = <<>> THEN 0 ELSE Len(rs[1].result.images) + ImagesIn(Tail(rs))

C22_FailedImagesNotOnDisk ==
    pc = "returned" =>
        \A k \in 1..Len(result_obj.images) :
            result_obj.images[k].image_path = NoneVal =>
                /\ OnDisk(PathVal(call.out_path, k, "", FileExtension)) \notin fs
                /\ OnDisk(PathVal(call.out_path, k, "_mask", FileExtension)) \notin fs

\* The rows of the boundary dataset that share a point with the area: of
\* two boxes that meet, the corner made of the greater lower bounds lies in
\* both.
SharesPoint(a, b) ==
    \E px \in {a.minx, b.minx}, py \in {a.miny, b.miny} :
        /\ a.minx <= px /\ px <= a.maxx /\ a.miny <= py /\ py <= a.maxy
        /\ b.minx <= px /\ px <= b.maxx /\ b.miny <= py /\ py <= b.maxy
RowOf(state_name) == CHOOSE r \in 1..Len(StatesGdf) : StatesGdf[r].name = state_name

\* C23: detect_intersecting_states returns its entries in the order of the
\* boundary dataset, exactly the states that share a point with the area;
\* download_images_auto processes them in that order, and the keys of its
\* mapping are in that order too.
C23_StatesInDatasetOrder ==
    (auto_args.entry \in {"detect_intersecting_states", "download_images_auto"}
        /\ _states_gdf # NoStatesGdf /\ raised # "URLError") =>
        /\ \A k \in 1..Len(intersecting_states) :
              \E r \in 1..Len(StatesGdf) :
                  StatesGdf[r].name = intersecting_states[k].state_name
        /\ \A j, k \in 1..Len(intersecting_states) :
              j < k => RowOf(intersecting_states[j].state_name)
                          < RowOf(intersecting_states[k].state_name)
        /\ { intersecting_states[k].state_name : k \in 1..Len(intersecting_states) }
              = { StatesGdf[r].name : r \in { q \in 1..Len(StatesGdf) :
                      SharesPoint(auto_args.area_polygon, StatesGdf[q].geometry) } }
        /\ Len(processed) <= Len(intersecting_states)
        /\ \A k \in 1..Len(processed) :
              processed[k].state_name = intersecting_states[k].state_name
        /\ \A j, k \in 1..Len(results) :
              j < k => RowOf(results[j].state_name) < RowOf(results[k].state_name)

\* C23 witness: a coordinated download over two states has returned with
\* both states in its mapping.
C23_Witness ==
    /\ pc = "auto_returned"
    /\ Len(intersecting_states) = 2
    /\ Len(processed) = 2
    /\ Len(results) = 2

\* C24: once the boundary dataset is cached, no step reads it again and
\* no step replaces or changes the cached dataset.
C24_BoundariesLoadedOnce ==
    [][ _states_gdf # NoStatesGdf => (_states_gdf' = _states_gdf /\ Loads' = Loads) ]_vars

\* C24 witness: download_images_auto was entered with the dataset already
\* cached by an earlier detect_intersecting_states, and the dataset has
\* been read once.
C24_Witness ==
    /\ auto_args.entry = "download_images_auto"
    /\ auto_args.cached
    /\ pc = "auto"
    /\ _states_gdf = StatesGdf
    /\ Len(Loads) = 1

----------------------------------------------------------------------------
(* Per-state areas and the sizes of the Images                             *)

\* The geometry of the state of that name in the boundary dataset.
GeometryOf(state_name) == StatesGdf[RowOf(state_name)].geometry

\* p is the part of a that lies in g: every bound of p is a bound of a or
\* of g, and p lies within both.
IsPartWithin(p, a, g) ==
    /\ p.minx \in {a.minx, g.minx} /\ p.minx >= a.minx /\ p.minx >= g.minx
    /\ p.miny \in {a.miny, g.miny} /\ p.miny >= a.miny /\ p.miny >= g.miny
    /\ p.maxx \in {a.maxx, g.maxx} /\ p.maxx <= a.maxx /\ p.maxx <= g.maxx
    /\ p.maxy \in {a.maxy, g.maxy} /\ p.maxy <= a.maxy /\ p.maxy <= g.maxy

\* dir is the directory out_path/<state name with "/" replaced by "_">.
IsStateDirectory(dir, out_path, state_name) ==
    /\ Len(dir) = Len(out_path) + 1
    /\ SubSeq(dir, 1, Len(out_path)) = out_path
    /\ Len(dir[Len(dir)]) = Len(state_name)
    /\ \A k \in 1..Len(state_name) :
          dir[Len(dir)][k] = (IF state_name[k] = "/" THEN "_" ELSE state_name[k])

\* The area of a box, in squares of 1/Den metre, and the sum of the areas
\* of the detected intersections.
AreaOf(b) == (b.maxx - b.minx) * (b.maxy - b.miny)
RECURSIVE AreaSum(_)
AreaSum(found) ==
    IF found = <<>> THEN 0 ELSE AreaOf(found[1].intersection_geom) + AreaSum(Tail(found))

\* The area lies inside the union of the states of the boundary dataset,
\* which is the box from (0, 0) to (4000, 6000).
InsideUnion(a) ==
    /\ M(0) <= a.minx /\ a.maxx <= M(4000)
    /\ M(0) <= a.miny /\ a.maxy <= M(6000)

\* C25: every dataset in the mapping of download_images_auto has as its
\* polygon the part of the input area inside its state, not the whole
\* input, and its directory and image files are under out_path/<state name
\* with "/" replaced by "_">, which exists; for an input inside the union
\* of the states the detected intersections lie within the input and
\* their areas add up to the area of the input.
C25_PerStateIntersection ==
    auto_args.entry = "download_images_auto" =>
        /\ \A j \in 1..Len(results) :
              LET ds == results[j].result
              IN  /\ IsPartWithin(ds.polygon, auto_args.area_polygon,
                                  GeometryOf(results[j].state_name))
                  /\ IsStateDirectory(ds.out_path.dir, auto_args.out_path,
                                      results[j].state_name)
                  /\ OnDisk(ds.out_path) \in fs
                  /\ \A k \in 1..Len(ds.images) :
                        ds.images[k].image_path # NoneVal =>
                            ds.images[k].image_path.dir = ds.out_path.dir
        /\ (_states_gdf # NoStatesGdf /\ raised # "URLError"
                /\ InsideUnion(auto_args.area_polygon)) =>
              /\ \A k \in 1..Len(intersecting_states) :
                    IsPartWithin(intersecting_states[k].intersection_geom,
                                 auto_args.area_polygon,
                                 GeometryOf(intersecting_states[k].state_name))
              /\ AreaSum(intersecting_states) = AreaOf(auto_args.area_polygon)

\* C25 witness: an area across the border of Baden-Wuerttemberg and
\* Niedersachsen/Bremen has been downloaded from both, each dataset
\* holding a part smaller than the input.
C25_Witness ==
    /\ pc = "auto_returned"
    /\ Len(results) = 2
    /\ results[2].state_name = <<"Niedersachsen", "/", "Bremen">>
    /\ results[2].result.out_path.dir = << <<"out">>, <<"Niedersachsen", "_", "Bremen">> >>
    /\ results[1].result.polygon # auto_args.area_polygon
    /\ results[2].result.polygon # auto_args.area_polygon
    /\ \E k \in 1..Len(results[2].result.images) :
          results[2].result.images[k].image_path # NoneVal

\* An Image's lengths in metres agree with its pixels and with the grid
\* spacing; lengths in metres are held in centimetres.
SizesAgree(img, grid_spacing) ==
    /\ img.width_m = img.width_px * img.resolution_m
    /\ img.height_m = img.height_px * img.resolution_m
    /\ img.width_m = grid_spacing * 100
    /\ img.height_m = grid_spacing * 100
    /\ img.width_px * img.resolution_m = grid_spacing * 100
    /\ img.height_px = img.width_px

----------------------------------------------------------------------------
(* Degenerate areas, delete_images and the catalog of services             *)

\* The bounding box of the buffered area has no width or no height.
DegenerateBox(area, buffer_size) ==
    LET b == BufferedBounds(area, buffer_size)
    IN  b.minx = b.maxx \/ b.miny = b.maxy

\* C27: for an area whose buffered bounding box has zero width or zero
\* height, whole-number bounds included, _make_grid returns normally with
\* at least one tile.
C27_DegenerateBoxGetsTile ==
    \A g \in 1..Len(grids) :
        DegenerateBox(grids[g].area, grids[g].buffer_size) =>
            /\ grids[g].grid.raised = "none"
            /\ Len(grids[g].grid.tiles) >= 1

\* The entries a directory had: its files and the directories right
\* below it.
EntriesOf(files, dir) ==
    { f \in files :
        \/ f.dir = dir /\ (f.stem # 0 \/ f.suffix # "" \/ f.ext # "")
        \/ /\ f.stem = 0 /\ f.suffix = "" /\ f.ext = ""
           /\ Len(f.dir) = Len(dir) + 1
           /\ SubSeq(f.dir, 1, Len(dir)) = dir }

\* C28: when the directory passed to delete_images did not exist, or held
\* an entry whose suffix is neither .png nor .tiff, the call returned
\* False and no file or directory was removed; when it returned True, all
\* entries of the directory and the directory itself are gone.
C28_DeleteAllOrNothing ==
    deletion.called =>
        LET dir == OnDisk(DirVal(deletion.dir_path))
            had == EntriesOf(deletion.before, deletion.dir_path)
        IN  /\ (dir \notin deletion.before \/ \E f \in had : f.ext \notin {"png", "tiff"}) =>
                  (~deletion.returned /\ fs = deletion.before)
            /\ deletion.returned =>
                  /\ dir \in deletion.before
                  /\ dir \notin fs
                  /\ had \cap fs = {}
                  /\ fs = deletion.before \ (had \cup {dir})

\* C28 witness: delete_images was called on the directory of a download
\* that holds an image and the dumped polygon.geojson; it returned False
\* and the files are as before.
C28_Witness ==
    /\ deletion.called
    /\ OnDisk(PolygonFile(deletion.dir_path)) \in deletion.before
    /\ OnDisk(PathVal(deletion.dir_path, 1, "", FileExtension)) \in deletion.before
    /\ ~deletion.returned
    /\ fs = deletion.before

\* The table download_images_auto looks the class up in.
TableOf(image_type) ==
    IF image_type = "RGB" THEN STATE_TO_RGB_DOWNLOADER ELSE STATE_TO_CIR_DOWNLOADER

\* C29: for every state code listed in STATE_TO_RGB_DOWNLOADER or
\* STATE_TO_CIR_DOWNLOADER the lookup of the class succeeds: no state whose
\* code is listed for the requested kind fails in _get_downloader_class.
C29_CatalogClosed ==
    (auto_args.entry = "download_images_auto" /\ auto_args.image_type \in {"RGB", "CIR"}) =>
        \A k \in 1..Len(processed) :
            intersecting_states[k].state_code \in DOMAIN TableOf(auto_args.image_type) =>
                processed[k].step # "lookup"

\* C30: a detected state whose downloader was looked up and constructed
\* completes its download and is in the mapping, whatever the shape of its
\* intersection with the area (the mask, when one is passed, being a valid
\* one).
C30_AnyIntersectionShapeDownloads ==
    (auto_args.entry = "download_images_auto"
        /\ (call.mask = NoMask \/ WellFormed(call.mask))) =>
        \A k \in 1..Len(processed) :
            processed[k].step = "download" =>
                /\ processed[k].raised = "none"
                /\ \E j \in 1..Len(results) :
                      results[j].state_name = processed[k].state_name

====
